---- MODULE Spec2Model ----
(***************************************************************************)
(* Model of the ranking engine of project-brain/brain.py: the stemmer, the *)
(* tokenizer, the document builder, the BM25 index (rank_bm25.BM25Okapi as *)
(* brain.py calls it), the structural booster and the link propagator.     *)
(*                                                                         *)
(* Text is a sequence of one-character strings, so that slicing, suffix    *)
(* tests and the tokenizer's scan are computed as the code computes them.  *)
(* Scores are fixed-point integers: one unit is 1/Scale.                   *)
(***************************************************************************)
EXTENDS Integers, Sequences, FiniteSets, TLC

VARIABLES
  entries,        \* the entry list the call works on
  query_terms,    \* the raw query terms the call works on
  given,          \* the arguments as the caller passed them
  pc,             \* the position in score_entries_bm25 (or in the stem call)
  bm25,           \* the index built from the entries
  query_tokens,   \* tokenize(" ".join(query_terms))
  raw_scores,     \* Stage 1
  boosted,        \* Stage 2
  id_to_score,    \* Stage 3
  link_boost,     \* Stage 3, the propagation pool
  final,          \* the kept (total, entry) pairs
  result,         \* what the call returned or raised
  memo,           \* the first completed call: its arguments and its result
  word,           \* the argument of a stem call
  stemmed         \* what the stem call returned

vars == << entries, query_terms, given, pc, bm25, query_tokens, raw_scores,
           boosted, id_to_score, link_boost, final, result, memo, word, stemmed >>

(* ---------------------------------------------------------------------- *)
(* Strings                                                                *)
(* ---------------------------------------------------------------------- *)

\* str.endswith
EndsWith(w, suf) ==
  Len(w) >= Len(suf) /\ SubSeq(w, Len(w) - Len(suf) + 1, Len(w)) = suf

\* str.startswith
StartsWith(w, pre) ==
  Len(w) >= Len(pre) /\ SubSeq(w, 1, Len(pre)) = pre

\* w[:-n], for n <= len(w)
DropLast(w, n) == SubSeq(w, 1, Len(w) - n)

UpperLetters ==
  {"A","B","C","D","E","F","G","H","I","J","K","L","M",
   "N","O","P","Q","R","S","T","U","V","W","X","Y","Z"}

LowerOf ==
  [c \in UpperLetters |->
     CASE c = "A" -> "a" [] c = "B" -> "b" [] c = "C" -> "c" [] c = "D" -> "d"
       [] c = "E" -> "e" [] c = "F" -> "f" [] c = "G" -> "g" [] c = "H" -> "h"
       [] c = "I" -> "i" [] c = "J" -> "j" [] c = "K" -> "k" [] c = "L" -> "l"
       [] c = "M" -> "m" [] c = "N" -> "n" [] c = "O" -> "o" [] c = "P" -> "p"
       [] c = "Q" -> "q" [] c = "R" -> "r" [] c = "S" -> "s" [] c = "T" -> "t"
       [] c = "U" -> "u" [] c = "V" -> "v" [] c = "W" -> "w" [] c = "X" -> "x"
       [] c = "Y" -> "y" [] c = "Z" -> "z"]

\* str.lower
lower(w) ==
  [i \in 1..Len(w) |-> IF w[i] \in UpperLetters THEN LowerOf[w[i]] ELSE w[i]]

\* the characters the regular expression class [a-z0-9] matches
AlnumChars ==
  {"a","b","c","d","e","f","g","h","i","j","k","l","m",
   "n","o","p","q","r","s","t","u","v","w","x","y","z",
   "0","1","2","3","4","5","6","7","8","9"}

Whitespace == {" ", "\t", "\n"}

RECURSIVE lstrip(_)
lstrip(w) ==
  IF w # <<>> /\ Head(w) \in Whitespace THEN lstrip(Tail(w)) ELSE w

RECURSIVE rstrip(_)
rstrip(w) ==
  IF w # <<>> /\ w[Len(w)] \in Whitespace THEN rstrip(DropLast(w, 1)) ELSE w

\* str.strip
strip(w) == rstrip(lstrip(w))

\* str.split(sep) for a one-character separator: every part, the empty ones too
RECURSIVE SplitFrom(_, _, _, _)
SplitFrom(w, seps, cur, acc) ==
  IF w = <<>> THEN Append(acc, cur)
  ELSE IF Head(w) \in seps
    THEN SplitFrom(Tail(w), seps, <<>>, Append(acc, cur))
    ELSE SplitFrom(Tail(w), seps, Append(cur, Head(w)), acc)

split(w, sep) == SplitFrom(w, {sep}, <<>>, <<>>)

\* "needle in haystack" for strings
IsSubstring(needle, hay) ==
  \E i \in 0..(Len(hay) - Len(needle)) :
    SubSeq(hay, i + 1, i + Len(needle)) = needle

\* " ".join(parts)
RECURSIVE join(_)
join(parts) ==
  IF parts = <<>> THEN <<>>
  ELSE IF Len(parts) = 1 THEN parts[1]
  ELSE parts[1] \o <<" ">> \o join(Tail(parts))

(* ---------------------------------------------------------------------- *)
(* Stopwords and stemmer                                                  *)
(* ---------------------------------------------------------------------- *)

STOPWORDS == {
    <<"t","h","e">>, <<"a">>, <<"a","n">>, <<"i","s">>, <<"a","r","e">>, <<"w","a","s">>,
    <<"w","e","r","e">>, <<"b","e">>, <<"b","e","e","n">>, <<"b","e","i","n","g">>,
    <<"h","a","v","e">>, <<"h","a","s">>, <<"h","a","d">>, <<"d","o">>, <<"d","o","e","s">>,
    <<"d","i","d">>, <<"w","i","l","l">>, <<"w","o","u","l","d">>, <<"c","o","u","l","d">>,
    <<"s","h","o","u","l","d">>, <<"m","a","y">>, <<"m","i","g","h","t">>, <<"c","a","n">>,
    <<"s","h","a","l","l">>, <<"t","o">>, <<"o","f">>, <<"i","n">>, <<"f","o","r">>,
    <<"o","n">>, <<"w","i","t","h">>, <<"a","t">>, <<"b","y">>, <<"f","r","o","m">>,
    <<"a","s">>, <<"i","n","t","o">>, <<"t","h","r","o","u","g","h">>,
    <<"d","u","r","i","n","g">>, <<"b","e","f","o","r","e">>, <<"a","f","t","e","r">>,
    <<"a","b","o","v","e">>, <<"b","e","l","o","w">>, <<"b","e","t","w","e","e","n">>,
    <<"a","n","d">>, <<"b","u","t">>, <<"o","r">>, <<"n","o","t">>, <<"n","o">>,
    <<"n","o","r">>, <<"s","o">>, <<"y","e","t">>, <<"b","o","t","h">>, <<"e","a","c","h">>,
    <<"t","h","i","s">>, <<"t","h","a","t">>, <<"t","h","e","s","e">>, <<"t","h","o","s","e">>,
    <<"i","t">>, <<"i","t","s">>, <<"t","h","e","y">>, <<"t","h","e","m">>,
    <<"t","h","e","i","r">>, <<"w","e">>, <<"o","u","r">>, <<"y","o","u">>,
    <<"y","o","u","r">>, <<"h","e">>, <<"s","h","e">>, <<"h","i","s">>, <<"h","e","r">>,
    <<"w","h","i","c","h">>, <<"w","h","a","t">>, <<"w","h","e","n">>, <<"w","h","e","r","e">>,
    <<"w","h","o">>, <<"w","h","o","m">>, <<"h","o","w">>, <<"a","l","l">>, <<"a","n","y">>,
    <<"s","o","m","e">>, <<"n","o","n","e">>, <<"i","f">>, <<"t","h","e","n">>,
    <<"t","h","a","n">>, <<"t","o","o">>, <<"v","e","r","y">>, <<"j","u","s","t">>,
    <<"a","l","s","o">>, <<"a","b","o","u","t">>, <<"u","p">>, <<"o","u","t">>
}

DoubledNever(base) == FALSE

\* base[-1] == base[-2], guarded by len(base) >= 2
Doubled(base) ==
  Len(base) >= 2 /\ base[Len(base)] = base[Len(base) - 1]

\* the rules below the -ed rule
stemAfterEd(w) ==
  IF EndsWith(w, <<"e","r">>) /\ Len(w) > 4
    THEN DropLast(w, 2)
  ELSE IF EndsWith(w, <<"l","y">>) /\ Len(w) > 4
    THEN DropLast(w, 2)
  ELSE IF EndsWith(w, <<"e","s">>) /\ Len(w) > 3
    THEN DropLast(w, 2)
  ELSE IF EndsWith(w, <<"s">>) /\ ~EndsWith(w, <<"s","s">>) /\ Len(w) > 3
    THEN DropLast(w, 1)
  ELSE w

\* the -ed rule
stemEd(w) ==
  IF EndsWith(w, <<"e","d">>) /\ Len(w) > 3
    THEN LET base == DropLast(w, 2) IN
         IF EndsWith(base, <<"i">>) THEN DropLast(base, 1) \o <<"y">>
         ELSE IF Doubled(base) THEN DropLast(base, 1)
         ELSE base
  ELSE stemAfterEd(w)

\* the rules between the general -ing rule and the -ed rule
stemAfterIng(w) ==
  IF EndsWith(w, <<"m","e","n","t">>) /\ Len(w) > 5
    THEN DropLast(w, 4)
  ELSE IF EndsWith(w, <<"f","u","l">>) /\ Len(w) > 4
    THEN DropLast(w, 3)
  ELSE IF EndsWith(w, <<"o","u","s">>) /\ Len(w) > 4
    THEN DropLast(w, 3)
  ELSE IF EndsWith(w, <<"i","v","e">>) /\ Len(w) > 4
    THEN DropLast(w, 3)
  ELSE IF EndsWith(w, <<"i","z","e","d">>)
    THEN DropLast(w, 4) \o <<"i","z","e">>
  ELSE IF EndsWith(w, <<"i","s","e","d">>)
    THEN DropLast(w, 4) \o <<"i","s","e">>
  ELSE IF EndsWith(w, <<"t","i","o","n">>)
    THEN DropLast(w, 4) \o <<"t">>
  ELSE stemEd(w)

\* the -ing rule without the test on the length of the base
stemIngAlways(w) ==
  IF EndsWith(w, <<"i","n","g">>) /\ Len(w) > 4
    THEN LET base == DropLast(w, 3) IN
         IF Doubled(base) THEN DropLast(base, 1) ELSE base
  ELSE stemAfterIng(w)

\* the general -ing rule; it falls through when the base has at most two
\* letters and they are not a doubled letter
stemIng(w) ==
  IF EndsWith(w, <<"i","n","g">>) /\ Len(w) > 4
    THEN LET base == DropLast(w, 3) IN
         IF Doubled(base) THEN DropLast(base, 1)
         ELSE IF Len(base) > 2 THEN base
         ELSE stemAfterIng(w)
  ELSE stemAfterIng(w)

\* the rules between the -ting rule and the general -ing rule
stemAfterTing(w) ==
  IF EndsWith(w, <<"s","s","e","s">>)
    THEN DropLast(w, 2)
  ELSE IF EndsWith(w, <<"i","e","s">>) /\ Len(w) > 4
    THEN DropLast(w, 3) \o <<"y">>
  ELSE IF EndsWith(w, <<"n","e","s","s">>) /\ Len(w) > 5
    THEN DropLast(w, 4)
  ELSE IF EndsWith(w, <<"l","e","s","s">>)
    THEN DropLast(w, 4)
  ELSE IF EndsWith(w, <<"a","b","l","e">>) /\ Len(w) > 5
    THEN DropLast(w, 4)
  ELSE IF EndsWith(w, <<"i","b","l","e">>) /\ Len(w) > 5
    THEN DropLast(w, 4)
  ELSE IF EndsWith(w, <<"a","l","l","y">>)
    THEN DropLast(w, 4) \o <<"a","l">>
  ELSE stemIng(w)

\* the -ting rule taking the base to be the word without "ting"
stemTingSuffix(w) ==
  IF /\ EndsWith(w, <<"t","i","n","g">>)
     /\ Len(w) > 5
     /\ ~EndsWith(w, <<"s","t","i","n","g">>)
     /\ ~EndsWith(DropLast(w, 4), <<"t">>)
    THEN DropLast(w, 4)
  ELSE stemAfterTing(w)

\* the -ting rule; it falls through when the base ends in "t"
stemTing(w) ==
  IF /\ EndsWith(w, <<"t","i","n","g">>)
     /\ Len(w) > 5
     /\ ~EndsWith(w, <<"s","t","i","n","g">>)
     /\ ~EndsWith(DropLast(w, 3), <<"t">>)
    THEN DropLast(w, 3)
  ELSE stemAfterTing(w)

\* the whole suffix "ating" dropped
stemAtingSuffix(w) == DropLast(w, 5) \o <<"e">>

\* the rewrite of the -ating rule: word[:-3] + "e"
stemAting(w) == DropLast(w, 3) \o <<"e">>

\* the rules above the -ting rule
stemLong(w) ==
  IF EndsWith(w, <<"a","t","i","o","n","a","l">>)
    THEN DropLast(w, 7) \o <<"a","t","e">>
  ELSE IF EndsWith(w, <<"i","z","a","t","i","o","n">>)
    THEN DropLast(w, 7) \o <<"i","z","e">>
  ELSE IF EndsWith(w, <<"i","v","e","n","e","s","s">>)
    THEN DropLast(w, 7) \o <<"i","v","e">>
  ELSE IF EndsWith(w, <<"f","u","l","n","e","s","s">>)
    THEN DropLast(w, 7) \o <<"f","u","l">>
  ELSE IF EndsWith(w, <<"o","u","s","n","e","s","s">>)
    THEN DropLast(w, 7) \o <<"o","u","s">>
  ELSE IF EndsWith(w, <<"e","m","e","n","t">>) /\ Len(w) > 7
    THEN DropLast(w, 5)
  ELSE IF EndsWith(w, <<"m","e","n","t">>) /\ Len(w) > 6
    THEN DropLast(w, 4)
  ELSE IF EndsWith(w, <<"a","t","i","o","n">>) /\ Len(w) > 7
    THEN DropLast(w, 5) \o <<"e">>
  ELSE IF EndsWith(w, <<"a","t","i","n","g">>)
    THEN stemAting(w)
  ELSE IF EndsWith(w, <<"l","i","n","g">>) /\ Len(w) > 5 /\ w[Len(w) - 4] # "l"
    THEN DropLast(w, 3) \o <<"e">>
  ELSE IF EndsWith(w, <<"y","i","n","g">>)
    THEN DropLast(w, 4) \o <<"y">>
  ELSE stemTing(w)

stem(w) == IF Len(w) <= 3 THEN w ELSE stemLong(w)

(* ---------------------------------------------------------------------- *)
(* Tokenizer and document builder                                         *)
(* ---------------------------------------------------------------------- *)

\* re.findall(r"[a-z0-9][-a-z0-9]*", w): the next match starts at the first
\* alphanumeric character at or after i and runs on over alphanumerics and
\* hyphens for as long as it can; the scan goes on behind it
TokenChars == AlnumChars \cup {"-"}

RECURSIVE FindAllFrom(_, _)
FindAllFrom(w, i) ==
  LET starts == {j \in i..Len(w) : w[j] \in AlnumChars} IN
    IF starts = {} THEN <<>>
    ELSE LET first == CHOOSE j \in starts : \A k \in starts : j <= k
             last == CHOOSE k \in first..Len(w) :
                       /\ \A m \in first..k : w[m] \in TokenChars
                       /\ k = Len(w) \/ w[k + 1] \notin TokenChars
         IN <<SubSeq(w, first, last)>> \o FindAllFrom(w, last + 1)

raw_tokens(text) == FindAllFrom(lower(text), 1)

RECURSIVE NonEmpty(_)
NonEmpty(parts) ==
  IF parts = <<>> THEN <<>>
  ELSE (IF Head(parts) # <<>> THEN <<Head(parts)>> ELSE <<>>) \o NonEmpty(Tail(parts))

\* the hyphen-separated parts first, then the token itself
RECURSIVE expandPartsFirst(_)
expandPartsFirst(toks) ==
  IF toks = <<>> THEN <<>>
  ELSE LET t == Head(toks) IN
       (IF \E i \in 1..Len(t) : t[i] = "-"
          THEN NonEmpty(split(t, "-")) ELSE <<>>)
         \o <<t>> \o expandPartsFirst(Tail(toks))

\* the token itself, then its non-empty hyphen-separated parts
RECURSIVE expand(_)
expand(toks) ==
  IF toks = <<>> THEN <<>>
  ELSE LET t == Head(toks) IN
       <<t>> \o (IF \E i \in 1..Len(t) : t[i] = "-"
                  THEN NonEmpty(split(t, "-")) ELSE <<>>)
           \o expand(Tail(toks))

\* the length test alone
SurvivesLong(t) == Len(t) > 1

\* the test is made on the unstemmed token
Survives(t) == t \notin STOPWORDS /\ Len(t) > 1

RECURSIVE StemSurvivors(_)
StemSurvivors(toks) ==
  IF toks = <<>> THEN <<>>
  ELSE (IF Survives(Head(toks)) THEN <<stem(Head(toks))>> ELSE <<>>)
         \o StemSurvivors(Tail(toks))

tokenize(text) == StemSurvivors(expand(raw_tokens(text)))

\* entry.get(field, "")
Get(entry, field) == IF field \in DOMAIN entry THEN entry[field] ELSE <<>>

Repeat(x, n) == [i \in 1..n |-> x]

\* the parts put together without the separating space
entry_to_corpus_doc_glued(entry) ==
  LET RECURSIVE Glue(_)
      Glue(parts) == IF parts = <<>> THEN <<>>
                     ELSE Head(parts) \o Glue(Tail(parts))
  IN tokenize(Glue(Repeat(Get(entry, "tags"), 5)
                     \o Repeat(Get(entry, "id"), 4)
                     \o << Get(entry, "summary"), Get(entry, "type"),
                           Get(entry, "file"), Get(entry, "known_issues") >>))

entry_to_corpus_doc(entry) ==
  tokenize(join(Repeat(Get(entry, "tags"), 5)
                  \o Repeat(Get(entry, "id"), 4)
                  \o << Get(entry, "summary"), Get(entry, "type"),
                        Get(entry, "file"), Get(entry, "known_issues") >>))

(* ---------------------------------------------------------------------- *)
(* BM25 index: BM25Okapi(corpus, k1=1.0, b=0.4), epsilon at its default    *)
(* ---------------------------------------------------------------------- *)

Scale == 100 * 1000

\* k1 and b in tenths, epsilon in hundredths
K1 == 10
B == 4
EPSILON == 25

\* Scale * math.log(k + 0.5), rounded, at index k + 1
LnHalf ==
  << -69315, 40547, 91629, 125276, 150408, 170475, 187180, 201490, 214007 >>

RECURSIVE SumSeq(_)
SumSeq(s) == IF s = <<>> THEN 0 ELSE Head(s) + SumSeq(Tail(s))

Words(doc) == {doc[i] : i \in 1..Len(doc)}

\* doc_freqs[i][word]
Freq(doc, w) == Cardinality({i \in 1..Len(doc) : doc[i] = w})

\* the two logarithms the other way round
RawIdfSwapped(corpus_size, freq) ==
  LnHalf[freq + 1] - LnHalf[corpus_size - freq + 1]

\* math.log(corpus_size - freq + 0.5) - math.log(freq + 0.5)
RawIdf(corpus_size, freq) ==
  LnHalf[corpus_size - freq + 1] - LnHalf[freq + 1]

\* BM25Okapi.__init__: _initialize divides the token count by the number of
\* documents, _calc_idf divides the idf sum by the number of distinct words
BM25Okapi(corpus) ==
  LET corpus_size == Len(corpus)
      doc_len == [i \in 1..corpus_size |-> Len(corpus[i])]
      num_doc == SumSeq(doc_len)
      vocab == UNION {Words(corpus[i]) : i \in 1..corpus_size}
      nd == [w \in vocab |->
               Cardinality({i \in 1..corpus_size : w \in Words(corpus[i])})]
      idf0 == [w \in vocab |-> RawIdf(corpus_size, nd[w])]
      RECURSIVE SumOver(_)
      SumOver(ws) == IF ws = {} THEN 0
                     ELSE LET w == CHOOSE x \in ws : TRUE
                          IN idf0[w] + SumOver(ws \ {w})
      idf_sum == SumOver(vocab)
  IN IF corpus_size = 0 \/ vocab = {}
       THEN [error |-> "ZeroDivisionError", corpus |-> corpus,
             num_doc |-> 0, idf |-> << >>]
       ELSE LET eps == (EPSILON * idf_sum) \div (100 * Cardinality(vocab))
            IN [error |-> "",
                corpus |-> corpus,
                num_doc |-> num_doc,
                idf |-> [w \in vocab |-> IF idf0[w] < 0 THEN eps ELSE idf0[w]]]

\* the unit the BM25 term scores are cut to, so that score * 0.15 is exact
Quantum == 20

\* a token the document does not hold is counted as held once
TermScoreSmoothed(index, doc, q) ==
  LET idf == IF q \in DOMAIN index.idf THEN index.idf[q] ELSE 0
      q_freq == Freq(doc, q) + 1
      num == q_freq * (K1 + 10) * 10 * index.num_doc
      den == 100 * q_freq * index.num_doc
               + K1 * ((10 - B) * index.num_doc
                         + B * Len(doc) * Len(index.corpus))
      factor == (1000 * num) \div den
  IN Quantum * ((idf * factor) \div (1000 * Quantum))

\* one query token's share of one document's score in BM25Okapi.get_scores:
\* idf * q_freq * (k1 + 1) / (q_freq + k1 * (1 - b + b * doc_len / avgdl)),
\* with avgdl = num_doc / corpus_size. The factor of idf is taken in
\* thousandths and the product is cut to a multiple of Quantum units
TermScore(index, doc, q) ==
  LET idf == IF q \in DOMAIN index.idf THEN index.idf[q] ELSE 0
      q_freq == Freq(doc, q)
      num == q_freq * (K1 + 10) * 10 * index.num_doc
      den == 100 * q_freq * index.num_doc
               + K1 * ((10 - B) * index.num_doc
                         + B * Len(doc) * Len(index.corpus))
      factor == (1000 * num) \div den
  IN Quantum * ((idf * factor) \div (1000 * Quantum))

\* BM25Okapi.get_scores: one score per document, summed over the query's
\* tokens as they come (a repeated token counts again)
get_scores(index, query) ==
  [i \in 1..Len(index.corpus) |->
     SumSeq([j \in 1..Len(query) |-> TermScore(index, index.corpus[i], query[j])])]

build_bm25_index(es) ==
  BM25Okapi([i \in 1..Len(es) |-> entry_to_corpus_doc(es[i])])

(* ---------------------------------------------------------------------- *)
(* score_entries_bm25: booster, link propagation, filter and sort         *)
(* ---------------------------------------------------------------------- *)

\* flat bonuses, in whole points
TAG_BOOST == 5
ID_BOOST == 4

\* the share of a score that is propagated, in hundredths
PROPAGATION == 15

\* [t.strip().lower() for t in entry.get("tags", "").split(",")]
entry_tags(entry) ==
  LET parts == split(Get(entry, "tags"), ",")
  IN {lower(strip(parts[i])) : i \in 1..Len(parts)}

\* the tag test made on the stemmed term
TermBoostStemmed(entry, term) ==
  LET term_lower == lower(term) IN
    (IF stem(term_lower) \in entry_tags(entry) THEN TAG_BOOST * Scale ELSE 0)
    + (IF IsSubstring(term_lower, lower(Get(entry, "id")))
         THEN ID_BOOST * Scale ELSE 0)

\* a term the tokenizer discards earns nothing
TermBoostSurviving(entry, term) ==
  LET term_lower == lower(term) IN
    IF tokenize(term) = <<>> THEN 0
    ELSE (IF term_lower \in entry_tags(entry) THEN TAG_BOOST * Scale ELSE 0)
         + (IF IsSubstring(term_lower, lower(Get(entry, "id")))
              THEN ID_BOOST * Scale ELSE 0)

\* what one raw query term adds to one entry's score
TermBoost(entry, term) ==
  LET term_lower == lower(term) IN
    (IF term_lower \in entry_tags(entry) THEN TAG_BOOST * Scale ELSE 0)
    + (IF IsSubstring(term_lower, lower(Get(entry, "id")))
         THEN ID_BOOST * Scale ELSE 0)

\* Stage 2: the raw score plus the bonuses of every raw query term
Boost(es, qterms, raws) ==
  [i \in 1..Len(es) |->
     raws[i]
       + SumSeq([j \in 1..Len(qterms) |-> TermBoost(es[i], qterms[j])])]

\* re.split(r"[,;]+", w): a run of separators splits once
RECURSIVE ReSplitFrom(_, _, _, _, _)
ReSplitFrom(w, i, cur, acc, inRun) ==
  IF i > Len(w) THEN Append(acc, cur)
  ELSE IF w[i] \in {",", ";"}
    THEN (IF inRun THEN ReSplitFrom(w, i + 1, cur, acc, TRUE)
          ELSE ReSplitFrom(w, i + 1, <<>>, Append(acc, cur), TRUE))
    ELSE ReSplitFrom(w, i + 1, Append(cur, w[i]), acc, FALSE)

RECURSIVE StripNonEmpty(_)
StripNonEmpty(parts) ==
  IF parts = <<>> THEN <<>>
  ELSE (IF strip(Head(parts)) # <<>> THEN <<strip(Head(parts))>> ELSE <<>>)
         \o StripNonEmpty(Tail(parts))

\* the underscore test made on each value instead of on the field
linked_ids_by_value(links_str) ==
  LET RECURSIVE Real(_)
      Real(lids) ==
        IF lids = <<>> THEN <<>>
        ELSE (IF StartsWith(Head(lids), <<"_">>) THEN <<>> ELSE <<Head(lids)>>)
               \o Real(Tail(lids))
  IN Real(StripNonEmpty(ReSplitFrom(links_str, 1, <<>>, <<>>, FALSE)))

\* the target ids one entry propagates to: none when the links field is
\* empty or starts with an underscore
linked_ids(links_str) ==
  IF links_str = <<>> \/ StartsWith(links_str, <<"_">>)
    THEN <<>>
    ELSE StripNonEmpty(ReSplitFrom(links_str, 1, <<>>, <<>>, FALSE))

\* score * 0.15
propagated(score) == (score * PROPAGATION) \div 100

\* link_boost[lid] = amount: the pool entry is overwritten, not added to
RECURSIVE AddLinksOverwrite(_, _, _)
AddLinksOverwrite(pool, lids, amount) ==
  IF lids = <<>> THEN pool
  ELSE AddLinksOverwrite([x \in DOMAIN pool \cup {Head(lids)} |->
                            IF x = Head(lids) THEN amount ELSE pool[x]],
                         Tail(lids), amount)

\* link_boost[lid] = link_boost.get(lid, 0.0) + amount, for every lid in turn
RECURSIVE AddLinks(_, _, _)
AddLinks(pool, lids, amount) ==
  IF lids = <<>> THEN pool
  ELSE LET lid == Head(lids)
           old == IF lid \in DOMAIN pool THEN pool[lid] ELSE 0
       IN AddLinks([x \in DOMAIN pool \cup {lid} |->
                      IF x = lid THEN old + amount ELSE pool[x]],
                   Tail(lids), amount)

\* the propagated amount shared out among the entry's targets
RECURSIVE PropagateSplit(_, _, _, _)
PropagateSplit(es, bs, i, pool) ==
  IF i > Len(es) THEN pool
  ELSE LET lids == linked_ids(Get(es[i], "links")) IN
       IF bs[i] <= 0 \/ lids = <<>>
         THEN PropagateSplit(es, bs, i + 1, pool)
         ELSE PropagateSplit(es, bs, i + 1,
                AddLinks(pool, lids, propagated(bs[i]) \div Len(lids)))

\* an entry sends on what it has received so far as well
RECURSIVE PropagateChained(_, _, _, _)
PropagateChained(es, bs, i, pool) ==
  IF i > Len(es) THEN pool
  ELSE LET id == Get(es[i], "id")
           cur == bs[i] + (IF id \in DOMAIN pool THEN pool[id] ELSE 0)
       IN IF cur <= 0
            THEN PropagateChained(es, bs, i + 1, pool)
            ELSE PropagateChained(es, bs, i + 1,
                   AddLinks(pool, linked_ids(Get(es[i], "links")),
                            propagated(cur)))

\* Stage 3: entries with a score above zero feed the pool
RECURSIVE PropagateFrom(_, _, _, _)
PropagateFrom(es, bs, i, pool) ==
  IF i > Len(es) THEN pool
  ELSE IF bs[i] <= 0
    THEN PropagateFrom(es, bs, i + 1, pool)
    ELSE PropagateFrom(es, bs, i + 1,
           AddLinks(pool, linked_ids(Get(es[i], "links")),
                    propagated(bs[i])))

EmptyMap == [x \in {} |-> 0]

\* the pool of the call before is carried over
LinkBoostStale == link_boost

\* link_boost = {}
LinkBoostInit == EmptyMap

Propagate(es, bs) == PropagateFrom(es, bs, 1, LinkBoostInit)

\* {e.get("id", ""): s for s, e in boosted}: a later entry overwrites
IdToScore(es, bs) ==
  [id \in {Get(es[i], "id") : i \in 1..Len(es)} |->
     LET last == CHOOSE i \in 1..Len(es) :
                   /\ Get(es[i], "id") = id
                   /\ \A j \in (i + 1)..Len(es) : Get(es[j], "id") # id
     IN bs[last]]

\* the score looked up by id in id_to_score
TotalById(es, bs, pool, i) ==
  LET entry_id == Get(es[i], "id")
  IN IdToScore(es, bs)[entry_id]
       + (IF entry_id \in DOMAIN pool THEN pool[entry_id] ELSE 0)

\* score + link_boost.get(entry_id, 0.0)
Total(es, bs, pool, i) ==
  LET entry_id == Get(es[i], "id")
  IN bs[i] + (IF entry_id \in DOMAIN pool THEN pool[entry_id] ELSE 0)

KeptNonNegative(total) == total >= 0

Kept(total) == total > 0

\* the (total, entry) pairs kept, in corpus order; idx is the entry's
\* position in the input list
RECURSIVE ApplyFrom(_, _, _, _)
ApplyFrom(es, bs, pool, i) ==
  IF i > Len(es) THEN <<>>
  ELSE LET total == Total(es, bs, pool, i)
       IN (IF Kept(total) THEN <<[score |-> total, idx |-> i]>> ELSE <<>>)
            \o ApplyFrom(es, bs, pool, i + 1)

\* first the entries that scored, then the entries that were linked
RECURSIVE ScoredFrom(_, _, _)
ScoredFrom(es, bs, i) ==
  IF i > Len(es) THEN <<>>
  ELSE (IF bs[i] > 0 THEN <<[score |-> bs[i], idx |-> i]>> ELSE <<>>)
         \o ScoredFrom(es, bs, i + 1)

RECURSIVE LinkedFrom(_, _, _, _)
LinkedFrom(es, bs, pool, i) ==
  IF i > Len(es) THEN <<>>
  ELSE (IF Get(es[i], "id") \in DOMAIN pool /\ Total(es, bs, pool, i) > 0
          THEN <<[score |-> Total(es, bs, pool, i), idx |-> i]>> ELSE <<>>)
         \o LinkedFrom(es, bs, pool, i + 1)

ApplyLinkedAgain(es, bs, pool) == ScoredFrom(es, bs, 1) \o LinkedFrom(es, bs, pool, 1)

Apply(es, bs, pool) == ApplyFrom(es, bs, pool, 1)

\* ties reversed: x goes in front of the elements that equal it
RECURSIVE InsertDescUnstable(_, _)
InsertDescUnstable(sorted, x) ==
  IF sorted = <<>> THEN <<x>>
  ELSE IF Head(sorted).score > x.score
    THEN <<Head(sorted)>> \o InsertDescUnstable(Tail(sorted), x)
    ELSE <<x>> \o sorted

\* where a stable descending sort puts x among the already sorted: behind
\* every element whose score is at least x's
RECURSIVE InsertDesc(_, _)
InsertDesc(sorted, x) ==
  IF sorted = <<>> THEN <<x>>
  ELSE IF Head(sorted).score >= x.score
    THEN <<Head(sorted)>> \o InsertDesc(Tail(sorted), x)
    ELSE <<x>> \o sorted

\* final.sort(key=lambda x: x[0], reverse=True)
RECURSIVE SortDesc(_)
SortDesc(s) ==
  IF s = <<>> THEN <<>>
  ELSE InsertDesc(SortDesc(DropLast(s, 1)), s[Len(s)])

NoQueryNever(qtoks) == FALSE

\* whether the call stops at "if not query_tokens: return []"
NoQuery(qtoks) == qtoks = <<>>

\* the whole call: the value returned, or the error raised
score_entries_bm25(es, qterms) ==
  LET index == build_bm25_index(es)
      qtoks == tokenize(join(qterms))
  IN IF index.error # "" THEN [error |-> index.error, value |-> <<>>]
     ELSE IF NoQuery(qtoks) THEN [error |-> "", value |-> <<>>]
     ELSE LET bs == Boost(es, qterms, get_scores(index, qtoks))
          IN [error |-> "",
              value |-> SortDesc(Apply(es, bs, Propagate(es, bs)))]

(* ---------------------------------------------------------------------- *)
(* Inputs                                                                 *)
(* ---------------------------------------------------------------------- *)

MaxEntries == 3
MaxTerms == 2

\* ids as parse_index_entries accepts them: letters, a hyphen, digits
EntryA ==
  [id |-> <<"A","-","1">>,
   tags |-> <<"c","a","c","h","e",",","r","u","n","n","i","n","g">>,
   links |-> <<"B","-","2",","," ","Z","-","9">>,
   summary |-> <<"d","i","s","k">>]

EntryB ==
  [id |-> <<"B","-","2">>,
   tags |-> <<"d","i","s","k">>,
   links |-> <<"C","-","3">>]

EntryC ==
  [id |-> <<"C","-","3">>,
   tags |-> <<"a">>,
   links |-> <<"_","x",",","B","-","2">>,
   summary |-> <<"t","h","e"," ","c","a","c","h","e">>]

EntryD ==
  [id |-> <<"D","-","4">>,
   tags |-> <<"c","a","c","h","e",",","r","u","n">>,
   links |-> <<"B","-","2",";","B","-","2">>]

EntryPool == {EntryA, EntryB, EntryC, EntryD}

TermPool ==
  { <<"c","a","c","h","e">>, <<"r","u","n","n","i","n","g">>, <<"a">>,
    <<"B","-","2">> }

SeqsUpTo(S, n) == UNION {[1..k -> S] : k \in 0..n}

EntryLists == SeqsUpTo(EntryPool, MaxEntries)
Queries == SeqsUpTo(TermPool, MaxTerms)

(* ---------------------------------------------------------------------- *)
(* The call, statement by statement                                       *)
(* ---------------------------------------------------------------------- *)

NoIndex == [error |-> "", corpus |-> <<>>, num_doc |-> 0, idf |-> <<>>]
NoResult == [error |-> "", value |-> <<>>]
NoArgs == [entries |-> <<>>, query_terms |-> <<>>]
NoMemo == [set |-> FALSE, given |-> NoArgs, result |-> NoResult, between |-> FALSE]

\* a call with arguments e and q begins; nothing of an earlier call is read
Enter(e, q) ==
  /\ entries = e
  /\ query_terms = q
  /\ given = [entries |-> e, query_terms |-> q]
  /\ pc = "build"

\* no call has run yet
Fresh ==
  /\ bm25 = NoIndex
  /\ query_tokens = <<>>
  /\ raw_scores = <<>>
  /\ boosted = <<>>
  /\ id_to_score = EmptyMap
  /\ link_boost = EmptyMap
  /\ final = <<>>
  /\ result = NoResult
  /\ memo = NoMemo

Init ==
  /\ \E e \in EntryLists, q \in Queries : Enter(e, q)
  /\ Fresh
  /\ word = <<>>
  /\ stemmed = <<>>

\* bm25 = build_bm25_index(entries)
BuildIndex ==
  /\ pc = "build"
  /\ bm25' = build_bm25_index(entries)
  /\ IF bm25'.error # ""
       THEN /\ pc' = "raised"
            /\ result' = [error |-> bm25'.error, value |-> <<>>]
       ELSE /\ pc' = "tokenize"
            /\ UNCHANGED result
  /\ UNCHANGED << entries, query_terms, given, query_tokens, raw_scores, boosted,
                  id_to_score, link_boost, final, memo, word, stemmed >>

\* query_tokens = tokenize(" ".join(query_terms)); if not query_tokens: return []
TokenizeQuery ==
  /\ pc = "tokenize"
  /\ query_tokens' = tokenize(join(query_terms))
  /\ IF NoQuery(query_tokens')
       THEN /\ pc' = "done"
            /\ result' = [error |-> "", value |-> <<>>]
       ELSE /\ pc' = "stage1"
            /\ UNCHANGED result
  /\ UNCHANGED << entries, query_terms, given, bm25, raw_scores, boosted,
                  id_to_score, link_boost, final, memo, word, stemmed >>

\* raw_scores = bm25.get_scores(query_tokens)
Stage1 ==
  /\ pc = "stage1"
  /\ raw_scores' = get_scores(bm25, query_tokens)
  /\ pc' = "stage2"
  /\ UNCHANGED << entries, query_terms, given, bm25, query_tokens, boosted,
                  id_to_score, link_boost, final, result, memo, word, stemmed >>

\* the loop that fills boosted
Stage2 ==
  /\ pc = "stage2"
  /\ boosted' = Boost(entries, query_terms, raw_scores)
  /\ pc' = "stage3"
  /\ UNCHANGED << entries, query_terms, given, bm25, query_tokens, raw_scores,
                  id_to_score, link_boost, final, result, memo, word, stemmed >>

\* id_to_score and the loop that fills link_boost
Stage3 ==
  /\ pc = "stage3"
  /\ id_to_score' = IdToScore(entries, boosted)
  /\ link_boost' = Propagate(entries, boosted)
  /\ pc' = "apply"
  /\ UNCHANGED << entries, query_terms, given, bm25, query_tokens, raw_scores,
                  boosted, final, result, memo, word, stemmed >>

\* the loop that fills final
ApplyBoosts ==
  /\ pc = "apply"
  /\ final' = Apply(entries, boosted, link_boost)
  /\ pc' = "sort"
  /\ UNCHANGED << entries, query_terms, given, bm25, query_tokens, raw_scores,
                  boosted, id_to_score, link_boost, result, memo, word, stemmed >>

\* final.sort(...); return final
SortReturn ==
  /\ pc = "sort"
  /\ final' = SortDesc(final)
  /\ result' = [error |-> "", value |-> final']
  /\ pc' = "done"
  /\ UNCHANGED << entries, query_terms, given, bm25, query_tokens, raw_scores,
                  boosted, id_to_score, link_boost, memo, word, stemmed >>

Next ==
  \/ BuildIndex
  \/ TokenizeQuery
  \/ Stage1
  \/ Stage2
  \/ Stage3
  \/ ApplyBoosts
  \/ SortReturn

Spec == Init /\ [][Next]_vars

(* ---------------------------------------------------------------------- *)
(* The same call on every entry list, for the queries that make the       *)
(* entries with links score                                               *)
(* ---------------------------------------------------------------------- *)

LinkQueries ==
  { << <<"c","a","c","h","e">> >>, << <<"B","-","2">> >>, << <<"a">> >>,
    << <<"c","a","c","h","e">>, <<"B","-","2">> >> }

InitLinks ==
  /\ \E e \in EntryLists, q \in LinkQueries : Enter(e, q)
  /\ Fresh
  /\ word = <<>>
  /\ stemmed = <<>>

SpecLinks == InitLinks /\ [][Next]_vars

(* ---------------------------------------------------------------------- *)
(* Calls one after another in one process                                 *)
(* ---------------------------------------------------------------------- *)

CallEntryLists ==
  { <<>>, <<EntryA>>, <<EntryA, EntryB>>, <<EntryD, EntryB, EntryD>> }

CallQueries ==
  { <<>>, << <<"c","a","c","h","e">> >>, << <<"a">>, <<"r","u","n","s">> >> }

InitCalls ==
  /\ \E e \in CallEntryLists, q \in CallQueries : Enter(e, q)
  /\ Fresh
  /\ word = <<>>
  /\ stemmed = <<>>

\* the call is over (it returned or raised); the first one to end is recorded
Return ==
  /\ pc \in {"done", "raised"}
  /\ pc' = "idle"
  /\ memo' = IF memo.set THEN memo
             ELSE [set |-> TRUE, given |-> given, result |-> result, between |-> FALSE]
  /\ UNCHANGED << entries, query_terms, given, bm25, query_tokens, raw_scores,
                  boosted, id_to_score, link_boost, final, result, word, stemmed >>

\* the next call; what the earlier call left in its locals is still there
Call ==
  /\ pc = "idle"
  /\ \E e \in CallEntryLists, q \in CallQueries :
       /\ entries' = e
       /\ query_terms' = q
       /\ given' = [entries |-> e, query_terms |-> q]
       /\ memo' = [memo EXCEPT !.between = @ \/ given' # memo.given]
  /\ pc' = "build"
  /\ UNCHANGED << bm25, query_tokens, raw_scores, boosted, id_to_score,
                  link_boost, final, result, word, stemmed >>

NextCalls ==
  \/ BuildIndex
  \/ TokenizeQuery
  \/ Stage1
  \/ Stage2
  \/ Stage3
  \/ ApplyBoosts
  \/ SortReturn
  \/ Return
  \/ Call

SpecCalls == InitCalls /\ [][NextCalls]_vars

(* ---------------------------------------------------------------------- *)
(* stem as a function of one word                                         *)
(* ---------------------------------------------------------------------- *)

MaxWordLen == 3

StemLetters == {"e", "s", "d", "i", "n", "g"}

Documented ==
  { <<"r","u","n","n","i","n","g">>, <<"s","e","a","r","c","h","i","n","g">>,
    <<"a","p","p","l","i","e","d">>, <<"s","t","o","p","p","e","d">>,
    <<"c","a","t">> }

\* words ending in "ing", "ting" and "ating"
MaxStemLen == 2

BaseLetters == {"t", "s", "o", "l", "y"}

IngSuffixes ==
  { <<"i","n","g">>, <<"t","i","n","g">>, <<"a","t","i","n","g">> }

IngWords ==
  {b \o x : b \in SeqsUpTo(BaseLetters, MaxStemLen), x \in IngSuffixes}

Examples ==
  { <<"c","r","e","a","t","i","n","g">>, <<"g","o","i","n","g">>,
    <<"u","s","i","n","g">>, <<"t","h","i","n","g">>,
    <<"c","o","m","p","u","t","i","n","g">>, <<"s","e","t","t","i","n","g">> }

WordPool ==
  SeqsUpTo(StemLetters, MaxWordLen) \cup Documented \cup IngWords \cup Examples

InitStem ==
  /\ word \in WordPool
  /\ stemmed = <<>>
  /\ pc = "stem"
  /\ entries = <<>>
  /\ query_terms = <<>>
  /\ given = NoArgs
  /\ Fresh

ApplyStem ==
  /\ pc = "stem"
  /\ stemmed' = stem(word)
  /\ pc' = "stemmed"
  /\ UNCHANGED << entries, query_terms, given, bm25, query_tokens, raw_scores,
                  boosted, id_to_score, link_boost, final, result, memo, word >>

NextStem == ApplyStem

SpecStem == InitStem /\ [][NextStem]_vars

(* ---------------------------------------------------------------------- *)
(* Properties                                                             *)
(* ---------------------------------------------------------------------- *)

\* the call ran through all its stages and returned
Ranked == pc = "done" /\ query_tokens # <<>>

Out == result.value

Returned(i) == \E k \in 1..Len(Out) : Out[k].idx = i

PoolAmount(id) == IF id \in DOMAIN link_boost THEN link_boost[id] ELSE 0

\* boosted score plus the pool amount for the entry's id
FinalScore(i) == boosted[i] + PoolAmount(Get(entries[i], "id"))

\* C1: every returned pair carries the entry's final score and that score is
\* strictly positive; an entry whose final score is zero or negative is
\* never returned.
C1_OnlyPositiveReturned ==
  pc = "done" =>
    /\ \A k \in 1..Len(Out) : Out[k].score > 0
    /\ Ranked =>
         /\ \A k \in 1..Len(Out) : Out[k].score = FinalScore(Out[k].idx)
         /\ \A i \in 1..Len(entries) : FinalScore(i) <= 0 => ~Returned(i)

C1_Witness ==
  /\ Ranked
  /\ Out # <<>>
  /\ \E i \in 1..Len(entries) : FinalScore(i) < 0 /\ ~Returned(i)
  /\ \E i \in 1..Len(entries) : FinalScore(i) = 0 /\ ~Returned(i)

\* C2: every result is one of the input entries (a position of the input
\* list), no position appears twice, and there are never more results than
\* input entries.
C2_SubsetAtMostOnce ==
  pc = "done" =>
    /\ \A k \in 1..Len(Out) : Out[k].idx \in 1..Len(entries)
    /\ \A k, l \in 1..Len(Out) : Out[k].idx = Out[l].idx => k = l
    /\ Len(Out) <= Len(entries)

C2_Witness ==
  /\ Ranked
  /\ Len(Out) >= 2
  /\ \E i, j \in 1..Len(entries) :
       i # j /\ entries[i] = entries[j] /\ Returned(i) /\ Returned(j)
  /\ \E i \in 1..Len(entries) :
       boosted[i] > 0 /\ PoolAmount(Get(entries[i], "id")) > 0 /\ Returned(i)

\* C3: the output is ordered by final score descending, and returned entries
\* with equal final scores keep the relative order of the input list.
C3_SortedStable ==
  pc = "done" =>
    /\ \A k \in 1..(Len(Out) - 1) : Out[k].score >= Out[k + 1].score
    /\ \A k, l \in 1..Len(Out) :
         (k < l /\ Out[k].score = Out[l].score) => Out[k].idx < Out[l].idx

C3_Witness ==
  /\ Ranked
  /\ \E k \in 1..(Len(Out) - 1) : Out[k].score = Out[k + 1].score
  /\ \E k \in 1..(Len(Out) - 1) :
       Out[k].score > Out[k + 1].score /\ Out[k].idx > Out[k + 1].idx

\* every raw term is removed by the tokenizer (or there is no term)
AllDiscarded(qs) == \A j \in 1..Len(qs) : tokenize(qs[j]) = <<>>

EmptyResult == [error |-> "", value |-> <<>>]

\* C4: for a non-empty entry list, an empty query or one whose raw terms
\* the tokenizer all removes returns the empty list without error: the call
\* never raises and never gets to the booster, even when a removed term
\* equals a tag or is a substring of an id.
C4_EmptyQueryReturnsEmpty ==
  (entries # <<>> /\ AllDiscarded(query_terms)) =>
    /\ pc \in {"build", "tokenize", "done"}
    /\ pc = "done" => result = EmptyResult

C4_Witness ==
  /\ pc = "done"
  /\ entries # <<>>
  /\ query_terms # <<>>
  /\ AllDiscarded(query_terms)
  /\ result = EmptyResult
  /\ \E i \in 1..Len(entries), j \in 1..Len(query_terms) :
       lower(query_terms[j]) \in entry_tags(entries[i])
  /\ \E i \in 1..Len(entries), j \in 1..Len(query_terms) :
       IsSubstring(lower(query_terms[j]), lower(Get(entries[i], "id")))

\* C5: a call with an empty entry list returns the empty list, for any
\* query, and raises nothing.
C5_EmptyCorpusReturnsEmpty ==
  (entries = <<>> /\ pc \in {"done", "raised"}) =>
    (pc = "done" /\ result = EmptyResult)

UniqueIds(es) ==
  \A i, j \in 1..Len(es) : i # j => Get(es[i], "id") # Get(es[j], "id")

Count(lids, id) == Cardinality({k \in 1..Len(lids) : lids[k] = id})

\* how often entry s names entry i's id among its link targets
Names(s, i) ==
  Count(linked_ids(Get(entries[s], "links")), Get(entries[i], "id"))

\* the sum, over the entries 1..s with a boosted score above zero, of the
\* boosted score times the number of times the entry names i's id
RECURSIVE WeightedLinks(_, _)
WeightedLinks(i, s) ==
  IF s = 0 THEN 0
  ELSE (IF boosted[s] > 0 THEN boosted[s] * Names(s, i) ELSE 0)
         + WeightedLinks(i, s - 1)

\* a is the one positively scored entry that names i, and names it once
OnlySource(a, i) ==
  /\ boosted[a] > 0
  /\ Names(a, i) = 1
  /\ \A s \in 1..Len(entries) : (s # a /\ boosted[s] > 0) => Names(s, i) = 0

Boosted == pc \in {"stage3", "apply", "sort"} \/ Ranked

TagHits(i) ==
  Cardinality({j \in 1..Len(query_terms) :
                 lower(query_terms[j]) \in entry_tags(entries[i])})

IdHits(i) ==
  Cardinality({j \in 1..Len(query_terms) :
                 IsSubstring(lower(query_terms[j]), lower(Get(entries[i], "id")))})

\* C7: boosted score minus raw score is 5.0 for every raw term whose
\* lowercased form equals one of the entry's tags plus 4.0 for every raw
\* term whose lowercased form is a substring of the lowercased id; the
\* bonuses add up across terms and a stemmed match alone earns nothing.
C7_StructuralBoost ==
  Boosted =>
    \A i \in 1..Len(entries) :
      boosted[i] - raw_scores[i] = (5 * TagHits(i) + 4 * IdHits(i)) * Scale

C7_Witness ==
  /\ Boosted
  /\ \E i \in 1..Len(entries) :
       TagHits(i) = 2 /\ IdHits(i) = 0 /\ boosted[i] - raw_scores[i] = 10 * Scale
  /\ \E i \in 1..Len(entries), j \in 1..Len(query_terms) :
       /\ stem(lower(query_terms[j])) \in entry_tags(entries[i])
       /\ lower(query_terms[j]) \notin entry_tags(entries[i])
       /\ TagHits(i) = 1
       /\ boosted[i] - raw_scores[i] = 5 * Scale

LinkSeps == {",", ";"}

\* the stretches of a links field between separators, as <<first, last>>
Segments(w) ==
  {seg \in (1..Len(w)) \X (1..Len(w)) :
     /\ seg[1] <= seg[2]
     /\ \A m \in seg[1]..seg[2] : w[m] \notin LinkSeps
     /\ seg[1] = 1 \/ w[seg[1] - 1] \in LinkSeps
     /\ seg[2] = Len(w) \/ w[seg[2] + 1] \in LinkSeps}

LinkAt(i, seg) == strip(SubSeq(Get(entries[i], "links"), seg[1], seg[2]))

CorpusIds == {Get(entries[i], "id") : i \in 1..Len(entries)}

\* the stretch holds a link (not a placeholder) naming an id no entry has
Dangling(i, seg) ==
  /\ LinkAt(i, seg) # <<>>
  /\ ~StartsWith(LinkAt(i, seg), <<"_">>)
  /\ LinkAt(i, seg) \notin CorpusIds

\* the entries with that link taken out of entry i's links field
WithoutLink(i, seg) ==
  LET w == Get(entries[i], "links") IN
    [entries EXCEPT ![i].links = SubSeq(w, 1, seg[1] - 1) \o SubSeq(w, seg[2] + 1, Len(w))]

\* C8: a link naming an id that no entry has raises no error and changes
\* nothing: the call returns what it returns for the same entries with
\* that link removed.
C8_DanglingLinkIgnored ==
  \A i \in 1..Len(entries) :
    \A seg \in Segments(Get(entries[i], "links")) :
      Dangling(i, seg) =>
        /\ pc # "raised"
        /\ pc = "done" => score_entries_bm25(WithoutLink(i, seg), query_terms) = result

C8_Witness ==
  /\ Ranked
  /\ Out # <<>>
  /\ \E i \in 1..Len(entries) :
       \E seg \in Segments(Get(entries[i], "links")) :
         /\ Dangling(i, seg)
         /\ boosted[i] > 0
         /\ LinkAt(i, seg) \in DOMAIN link_boost
         /\ \E t \in 1..Len(entries) :
              Names(i, t) > 0 /\ boosted[t] = 0 /\ Returned(t)

\* C9: a call returns what the first call with the same arguments
\* returned, whether it follows it at once or after calls with other
\* arguments, and the arguments are as the caller passed them.
C9_DeterministicStateless ==
  /\ entries = given.entries
  /\ query_terms = given.query_terms
  /\ (pc \in {"done", "raised"} /\ memo.set /\ given = memo.given) =>
       result = memo.result

C9_Witness ==
  /\ pc = "done"
  /\ memo.set
  /\ memo.between
  /\ given = memo.given
  /\ result = memo.result
  /\ Out # <<>>
  /\ DOMAIN link_boost # {}

\* C10: stem returns words of at most three letters unchanged and turns
\* "running" into "run", "searching" into "search", "applied" into "apply",
\* "stopped" into "stop" and leaves "cat" as it is.
C10_StemShortAndDocumented ==
  pc = "stemmed" =>
    /\ Len(word) <= 3 => stemmed = word
    /\ word = <<"r","u","n","n","i","n","g">> => stemmed = <<"r","u","n">>
    /\ word = <<"s","e","a","r","c","h","i","n","g">> => stemmed = <<"s","e","a","r","c","h">>
    /\ word = <<"a","p","p","l","i","e","d">> => stemmed = <<"a","p","p","l","y">>
    /\ word = <<"s","t","o","p","p","e","d">> => stemmed = <<"s","t","o","p">>
    /\ word = <<"c","a","t">> => stemmed = <<"c","a","t">>

C10_Witness ==
  /\ pc = "stemmed"
  /\ word = <<"s","t","o","p","p","e","d">>
  /\ stemmed = <<"s","t","o","p">>

\* ---------------------------------------------------------------------
\* Raw relevance (the index built at line 406, the scores of line 413)

Scored == pc \in {"stage2", "stage3", "apply", "sort"} \/ Ranked

\* the number of built documents that contain the token
DocCount(q) ==
  Cardinality({i \in 1..Len(bm25.corpus) : Freq(bm25.corpus[i], q) > 0})

\* the query tokens found in entry i's built document
Matched(i) ==
  {q \in Words(query_tokens) : Freq(bm25.corpus[i], q) > 0}

\* the token is in fewer than half of the documents
Rare(q) == 2 * DocCount(q) < Len(bm25.corpus)

\* C11 (as stated): every query token found in an entry's document adds a
\* strictly positive amount to the entry's raw score, however many documents
\* contain it; so every entry whose document holds a query token has a raw
\* score above zero and is returned.
C11_EveryMatchPositive ==
  Scored =>
    \A i \in 1..Len(entries) :
      /\ \A q \in Matched(i) : TermScore(bm25, bm25.corpus[i], q) > 0
      /\ Matched(i) # {} =>
           /\ raw_scores[i] > 0
           /\ Ranked => Returned(i)

\* C11 (amended): every query token found in an entry's document and held
\* by fewer than half of the documents adds a strictly positive amount to
\* the entry's raw score, and a token held by exactly half adds nothing;
\* so every entry whose document holds a query token, all its matched
\* tokens being in fewer than half of the documents, has a raw score above
\* zero and is returned.
C11_RareMatchPositive ==
  Scored =>
    \A i \in 1..Len(entries) :
      /\ \A q \in Matched(i) :
           /\ Rare(q) => TermScore(bm25, bm25.corpus[i], q) > 0
           /\ 2 * DocCount(q) = Len(bm25.corpus) =>
                TermScore(bm25, bm25.corpus[i], q) = 0
      /\ (Matched(i) # {} /\ \A q \in Matched(i) : Rare(q)) =>
           /\ raw_scores[i] > 0
           /\ Ranked => Returned(i)

C11_Witness ==
  /\ Ranked
  /\ \E i \in 1..Len(entries) :
       /\ Matched(i) # {}
       /\ \A q \in Matched(i) : Rare(q)
       /\ raw_scores[i] > 0
       /\ boosted[i] = raw_scores[i]
       /\ Returned(i)

\* ---------------------------------------------------------------------
\* Links fields that mix placeholders and ids (lines 436-446)

\* an entry whose links field holds an underscore-led value after an id
EntryE ==
  [id |-> <<"E","-","5">>,
   tags |-> <<"c","a","c","h","e">>,
   links |-> <<"B","-","2",";"," ","_","x"," ",",","C","-","3">>]

PlaceEntryPool == {EntryB, EntryC, EntryE}

PlaceTermPool == { <<"c","a","c","h","e">>, <<"a">> }

InitPlace ==
  /\ \E e \in SeqsUpTo(PlaceEntryPool, MaxEntries),
        q \in SeqsUpTo(PlaceTermPool, MaxTerms) : Enter(e, q)
  /\ Fresh
  /\ word = <<>>
  /\ stemmed = <<>>

SpecPlace == InitPlace /\ [][Next]_vars

Linked == pc \in {"apply", "sort"} \/ Ranked

Placeholder(v) == StartsWith(v, <<"_">>)

\* the trimmed, non-empty values of entry s's links field
ValuesOf(s) ==
  {LinkAt(s, seg) : seg \in Segments(Get(entries[s], "links"))} \ {<<>>}

\* how many values of entry s's links field are this id
ValueCount(s, id) ==
  Cardinality({seg \in Segments(Get(entries[s], "links")) : LinkAt(s, seg) = id})

AllValues == UNION {ValuesOf(s) : s \in 1..Len(entries)}

\* the field is empty or begins with an underscore
FieldSkipped(s) ==
  Get(entries[s], "links") = <<>> \/ Placeholder(Get(entries[s], "links"))

\* C12 (as stated): the links field of an entry with a score above zero is
\* read value by value: every non-empty value that is not a placeholder
\* receives 0.15 * score, also when it follows a placeholder in the same
\* field, and a placeholder value never creates a pool entry.
C12_ValueByValue ==
  Linked =>
    /\ \A id \in AllValues :
         ~Placeholder(id) =>
           PoolAmount(id) =
             SumSeq([s \in 1..Len(entries) |->
                       IF boosted[s] > 0
                         THEN propagated(boosted[s]) * ValueCount(s, id)
                         ELSE 0])
    /\ \A id \in DOMAIN link_boost : ~Placeholder(id)

\* C12 (amended): the links field of an entry with a score above zero is
\* skipped as a whole when it is empty or begins with an underscore;
\* otherwise every non-empty trimmed value, underscore-led ones included,
\* receives 0.15 * score. An id listed after a placeholder that begins the
\* field receives nothing from that entry, and an underscore-led value
\* that does not begin the field gets a pool entry.
C12_FieldByField ==
  Linked =>
    /\ \A id \in AllValues :
         PoolAmount(id) =
           SumSeq([s \in 1..Len(entries) |->
                     IF boosted[s] > 0 /\ ~FieldSkipped(s)
                       THEN propagated(boosted[s]) * ValueCount(s, id)
                       ELSE 0])
    /\ DOMAIN link_boost =
         {id \in AllValues :
            \E s \in 1..Len(entries) :
              boosted[s] > 0 /\ ~FieldSkipped(s) /\ id \in ValuesOf(s)}

C12_Witness ==
  /\ Linked
  /\ \E s \in 1..Len(entries) :
       /\ boosted[s] > 0
       /\ FieldSkipped(s)
       /\ \E id \in ValuesOf(s) :
            /\ ~Placeholder(id)
            /\ id \in CorpusIds
            /\ PoolAmount(id) + propagated(boosted[s]) * ValueCount(s, id) =
                 SumSeq([t \in 1..Len(entries) |->
                           IF boosted[t] > 0
                             THEN propagated(boosted[t]) * ValueCount(t, id)
                             ELSE 0])
  /\ \E s \in 1..Len(entries) :
       /\ boosted[s] > 0
       /\ ~FieldSkipped(s)
       /\ \E id \in ValuesOf(s) : Placeholder(id) /\ PoolAmount(id) > 0

\* ---------------------------------------------------------------------
\* Single-hop propagation (lines 434-454)

\* what entry s sends to each of its link targets
Sent(s) == IF boosted[s] > 0 THEN propagated(boosted[s]) ELSE 0

\* entry s names this id among the targets it propagates to
Targets(s, id) == Count(linked_ids(Get(entries[s], "links")), id)

\* C13: what an entry sends to its link targets is 0.15 * its boosted score,
\* never more for what it received itself, and an entry whose boosted score
\* is zero or negative sends nothing even when propagation makes its final
\* score positive: in a chain a -> b -> c where only a has a boosted score
\* above zero, b is returned and c keeps its boosted score and is not.
C13_SingleHop ==
  Linked =>
    /\ \A id \in DOMAIN link_boost \cup CorpusIds :
         PoolAmount(id) =
           SumSeq([s \in 1..Len(entries) |-> Sent(s) * Targets(s, id)])
    /\ \A b \in 1..Len(entries), c \in 1..Len(entries) :
         ( /\ boosted[b] <= 0
           /\ FinalScore(b) > 0
           /\ Targets(b, Get(entries[c], "id")) > 0
           /\ \A s \in 1..Len(entries) :
                boosted[s] > 0 => Targets(s, Get(entries[c], "id")) = 0 )
         => /\ FinalScore(c) = boosted[c]
            /\ Ranked => Returned(b)
            /\ (Ranked /\ boosted[c] <= 0) => ~Returned(c)

C13_Witness ==
  /\ Ranked
  /\ \E a \in 1..Len(entries), b \in 1..Len(entries), c \in 1..Len(entries) :
       /\ boosted[a] > 0
       /\ Targets(a, Get(entries[b], "id")) > 0
       /\ boosted[b] = 0
       /\ FinalScore(b) > 0
       /\ Returned(b)
       /\ Targets(b, Get(entries[c], "id")) > 0
       /\ boosted[c] = 0
       /\ FinalScore(c) = 0
       /\ ~Returned(c)
       /\ \A s \in 1..Len(entries) : boosted[s] > 0 <=> s = a

\* ---------------------------------------------------------------------
\* The -ating, -ting and -ing rules of stem (lines 275-306)

Ating == <<"a","t","i","n","g">>

\* C14 (as stated): for every word of more than three letters ending in
\* "ating", stem returns the word with the suffix "ating" dropped and "e"
\* appended.
C14_AtingSuffixDropped ==
  (pc = "stemmed" /\ Len(word) > 3 /\ EndsWith(word, Ating)) =>
    stemmed = DropLast(word, 5) \o <<"e">>

\* C14 (amended): for every word of more than three letters ending in
\* "ating" (no earlier rule matches such a word), stem returns the word with
\* its last three letters "ing" dropped and "e" appended: the "at" of the
\* suffix stays.
C14_AtingIngDropped ==
  (pc = "stemmed" /\ Len(word) > 3 /\ EndsWith(word, Ating)) =>
    /\ stemmed = DropLast(word, 3) \o <<"e">>
    /\ EndsWith(stemmed, <<"a","t","e">>)

C14_Witness ==
  /\ pc = "stemmed"
  /\ word = <<"c","r","e","a","t","i","n","g">>
  /\ stemmed = <<"c","r","e","a","t","e">>


Ing == <<"i","n","g">>

\* one of the rules above the general -ing rule rewrites the word: among
\* words ending in "ing" these are the -ating, -ling and -ying rules (the
\* -ting rule tests word[:-3], which ends in "t", and never rewrites)
EarlierIngRule(w) ==
  \/ EndsWith(w, Ating)
  \/ EndsWith(w, <<"l","i","n","g">>) /\ Len(w) > 5 /\ w[Len(w) - 4] # "l"
  \/ EndsWith(w, <<"y","i","n","g">>)

\* the word is one the general -ing rule is about
IngCase(w) == Len(w) > 4 /\ EndsWith(w, Ing) /\ ~EarlierIngRule(w)

\* the base with the second letter of a final doubled letter removed
DeDoubled(base) ==
  IF Len(base) >= 2 /\ base[Len(base)] = base[Len(base) - 1]
    THEN SubSeq(base, 1, Len(base) - 1)
    ELSE base

\* C15 (as stated): for every word of more than four letters ending in
\* "ing" that no earlier rule rewrites, stem returns the base (the word
\* without "ing"), less its last letter when the base ends in a doubled
\* letter; also for five-letter words, whose base has two letters.
C15_IngAlwaysRewrites ==
  (pc = "stemmed" /\ IngCase(word)) => stemmed = DeDoubled(DropLast(word, 3))

\* C15 (amended): for every word of more than four letters ending in "ing"
\* that no earlier rule rewrites, stem returns the base less its last letter
\* when the base ends in a doubled letter, and otherwise the base itself
\* when the base has more than two letters; a five-letter word whose two
\* base letters differ falls through the rule and is returned unchanged.
C15_IngRewritesLongBase ==
  (pc = "stemmed" /\ IngCase(word)) =>
    LET base == DropLast(word, 3) IN
      IF Len(base) = 2 /\ base[1] # base[2]
        THEN stemmed = word
        ELSE stemmed = DeDoubled(base)

C15_Witness ==
  /\ pc = "stemmed"
  /\ IngCase(word)
  /\ word = <<"g","o","i","n","g">>
  /\ stemmed = word


\* the word is one the -ting rule is about: more than five letters, ending
\* in "ting" but not in "sting" or "ating"
TingCase(w) ==
  /\ Len(w) > 5
  /\ EndsWith(w, <<"t","i","n","g">>)
  /\ ~EndsWith(w, <<"s","t","i","n","g">>)
  /\ ~EndsWith(w, Ating)

\* C16: for every word of more than five letters ending in "ting" but not
\* in "sting" or "ating", stem returns the word without its last three
\* letters when what is left of "ting" does not end in "t" ("computing"
\* gives "comput"), and the base without its doubled "t" when it does
\* ("setting" gives "set").
C16_TingRule ==
  (pc = "stemmed" /\ TingCase(word)) =>
    IF EndsWith(DropLast(word, 4), <<"t">>)
      THEN stemmed = DropLast(word, 4)
      ELSE stemmed = DropLast(word, 3)

C16_Witness ==
  /\ pc = "stemmed"
  /\ TingCase(word)
  /\ word = <<"c","o","m","p","u","t","i","n","g">>
  /\ stemmed = <<"c","o","m","p","u","t">>

\* ---------------------------------------------------------------------
\* tokenize (lines 341-355), applied to the query text at line 407

TokTermPool ==
  { <<"s","e","s","s","i","o","n","-","h","a","n","d","o","f","f">>,
    <<"T","h","e">>,
    <<"x">>,
    <<"a","-","-","b","-">>,
    <<"-","l","e","a","d">>,
    <<"a","n","d","s">>,
    <<"l","e","s","s">>,
    <<"R","e","_","r","u","n",".","i","n","g">>,
    <<"u","p","-","t","o","-","d","a","t","e">>,
    <<"i","s">>,
    <<"t","i","o","n",","," ","C","a","c","h","e">> }

InitTok ==
  /\ \E q \in SeqsUpTo(TokTermPool, MaxTerms) : Enter(<<EntryA, EntryB>>, q)
  /\ Fresh
  /\ word = <<>>
  /\ stemmed = <<>>

SpecTok == InitTok /\ [][Next]_vars

\* the query has just been tokenized
Tokenized == pc = "stage1" \/ (pc = "done" /\ query_tokens = <<>>)

\* the text tokenize was given, lowercased
QueryText == lower(join(query_terms))

\* the places where a run starts in the lowercased text w: a letter or
\* digit that follows nothing, a character of no run, or only hyphens
RunStarts(w) ==
  {s \in 1..Len(w) :
     /\ w[s] \in AlnumChars
     /\ \A j \in 1..(s - 1) :
          (\A m \in j..(s - 1) : w[m] \in TokenChars) => w[j] = "-"}

\* the run that starts at s goes on while letters, digits or hyphens follow
RunAt(w, s) ==
  LET e == CHOOSE k \in s..Len(w) :
             /\ \A m \in s..k : w[m] \in TokenChars
             /\ k = Len(w) \/ w[k + 1] \notin TokenChars
  IN SubSeq(w, s, e)

\* the hyphen-free stretches of a run, as the places where they start
PartStarts(run) ==
  {a \in 1..Len(run) : run[a] # "-" /\ (a = 1 \/ run[a - 1] = "-")}

PartAt(run, a) ==
  LET b == CHOOSE k \in a..Len(run) :
             /\ \A m \in a..k : run[m] # "-"
             /\ k = Len(run) \/ run[k + 1] = "-"
  IN SubSeq(run, a, b)

\* the stem of the item when it passes the stopword and length tests
StemIfKept(item) ==
  IF item \notin STOPWORDS /\ Len(item) > 1 THEN <<stem(item)>> ELSE <<>>

\* the parts of a run from place a on, in order
RECURSIVE PartsFrom(_, _)
PartsFrom(run, a) ==
  IF a > Len(run) THEN <<>>
  ELSE IF a \in PartStarts(run)
    THEN StemIfKept(PartAt(run, a)) \o PartsFrom(run, a + Len(PartAt(run, a)))
    ELSE PartsFrom(run, a + 1)

\* what a run yields: itself, then its parts when it holds a hyphen
RunYield(run) ==
  StemIfKept(run)
    \o (IF \E m \in 1..Len(run) : run[m] = "-" THEN PartsFrom(run, 1) ELSE <<>>)

\* the runs of w from place s on, in text order, each with what it yields
RECURSIVE YieldFrom(_, _)
YieldFrom(w, s) ==
  IF s > Len(w) THEN <<>>
  ELSE IF s \in RunStarts(w)
    THEN RunYield(RunAt(w, s)) \o YieldFrom(w, s + Len(RunAt(w, s)))
    ELSE YieldFrom(w, s + 1)

ItemsOf(w) ==
  LET runs == {RunAt(w, s) : s \in RunStarts(w)} IN
    runs \cup UNION {{PartAt(run, a) : a \in PartStarts(run)} :
                       run \in {r \in runs : \E m \in 1..Len(r) : r[m] = "-"}}

\* C18 (as stated): no token returned by tokenize is a stopword and none
\* has at most one character, the empty string included, also for words
\* that reduce to such a form under stemming.
C18_NoStopwordNoShort ==
  Tokenized =>
    \A k \in 1..Len(query_tokens) :
      query_tokens[k] \notin STOPWORDS /\ Len(query_tokens[k]) > 1

\* C18 (amended): every token returned by tokenize is the stem of an item
\* of the text that is not a stopword and has more than one character: the
\* two tests are made on the unstemmed item, so a returned token can itself
\* be a stopword or have at most one character when a longer item reduces
\* to it under stemming.
C18_StemOfKeptItem ==
  Tokenized =>
    \A k \in 1..Len(query_tokens) :
      \E item \in ItemsOf(QueryText) :
        /\ item \notin STOPWORDS
        /\ Len(item) > 1
        /\ query_tokens[k] = stem(item)

C18_Witness ==
  /\ Tokenized
  /\ query_terms = << <<"a","n","d","s">>, <<"l","e","s","s">> >>
  /\ query_tokens = << <<"a","n","d">>, <<>> >>

\* ---------------------------------------------------------------------
\* entry_to_corpus_doc (lines 358-381)

\* one entry's fields; each of them but the id can be missing
DocFields ==
  [tags |-> <<"i","o",",","r","u","n","-","t","i","m","e">>,
   summary |-> <<"t","h","e"," ","i","o"," ","r","u","n","s">>,
   type |-> <<"L","E","A","R","N","-">>,
   file |-> <<"i","o","/","a","-","1",".","m","d">>,
   known_issues |-> <<"N","o","n","e",";"," ","i","o"," ","s","l","o","w">>]

DocEntries ==
  {[f \in {"id"} \cup present |->
      IF f = "id" THEN <<"A","-","1">> ELSE DocFields[f]] :
     present \in SUBSET (DOMAIN DocFields)}

DocQueries == { << <<"i","o">> >>, << <<"r","u","n">>, <<"a","-","1">> >> }

InitDoc ==
  /\ \E e \in DocEntries, q \in DocQueries : Enter(<<e>>, q)
  /\ Fresh
  /\ word = <<>>
  /\ stemmed = <<>>

SpecDoc == InitDoc /\ [][Next]_vars

Built == pc \notin {"build", "raised", "idle", "stem", "stemmed"}

\* the occurrences of token t in the tokens of one field of entry i
FieldCount(i, f, t) == Freq(tokenize(Get(entries[i], f)), t)

WeightedCount(i, t) ==
  5 * FieldCount(i, "tags", t) + 4 * FieldCount(i, "id", t)
    + FieldCount(i, "summary", t) + FieldCount(i, "type", t)
    + FieldCount(i, "file", t) + FieldCount(i, "known_issues", t)

DocFieldNames == {"tags", "id", "summary", "type", "file", "known_issues"}

FieldTokens(i) ==
  UNION {Words(tokenize(Get(entries[i], f))) : f \in DocFieldNames}

StructuralHit(i) ==
  \E j \in 1..Len(query_terms) :
    \/ lower(query_terms[j]) \in entry_tags(entries[i])
    \/ IsSubstring(lower(query_terms[j]), lower(Get(entries[i], "id")))

\* entry i's id is one of the values of the links field of an entry with a
\* boosted score above zero
ListedByPositive(i) ==
  \E s \in 1..Len(entries) :
    boosted[s] > 0 /\ Get(entries[i], "id") \in ValuesOf(s)

\* C20: an entry is absent from the output whenever its built document
\* holds none of the query's tokens (its raw score is then 0), no raw query
\* term is one of its tags or a substring of its id, and its id is not
\* listed in the links of any entry with a boosted score above zero.
C20_UnrelatedAbsent ==
  Ranked =>
    \A i \in 1..Len(entries) :
      (Matched(i) = {} /\ ~StructuralHit(i) /\ ~ListedByPositive(i)) =>
        /\ raw_scores[i] = 0
        /\ boosted[i] = 0
        /\ FinalScore(i) = 0
        /\ ~Returned(i)

C20_Witness ==
  /\ Ranked
  /\ Out # <<>>
  /\ \E i \in 1..Len(entries) :
       /\ Matched(i) = {} /\ ~StructuralHit(i) /\ ~ListedByPositive(i)
       /\ ~Returned(i)
       /\ \E s \in 1..Len(entries) :
            boosted[s] <= 0 /\ Get(entries[i], "id") \in ValuesOf(s)

\* ---------------------------------------------------------------------
\* Entries that share an id (lines 434-435, 448-454)

\* an entry with the id of EntryB and other tags
EntryB2 ==
  [id |-> <<"B","-","2">>,
   tags |-> <<"c","a","c","h","e">>,
   links |-> <<"Z","-","9">>]

DupEntryPool == {EntryA, EntryB, EntryB2}

DupTermPool == { <<"c","a","c","h","e">>, <<"r","u","n","n","i","n","g">> }

InitDup ==
  /\ \E e \in SeqsUpTo(DupEntryPool, MaxEntries),
        q \in SeqsUpTo(DupTermPool, MaxTerms) : Enter(e, q)
  /\ Fresh
  /\ word = <<>>
  /\ stemmed = <<>>

SpecDup == InitDup /\ [][Next]_vars

\* another position of the input list holds an entry with the same id
SharesId(i) ==
  \E j \in 1..Len(entries) :
    j # i /\ Get(entries[j], "id") = Get(entries[i], "id")

\* the places of the output that hold input position i
PlacesOf(i) == {k \in 1..Len(Out) : Out[k].idx = i}

\* C21: when entries share an id, none takes another's score: for every
\* input position the final score is the entry's own boosted score plus
\* the whole pool amount of its id, whatever id_to_score holds for the id,
\* and every such entry with a final score above zero is in the output
\* once, on its own, with that score.
C21_SharedIdOwnScore ==
  Ranked =>
    /\ \A id \in CorpusIds :
         PoolAmount(id) =
           SumSeq([s \in 1..Len(entries) |-> Sent(s) * Targets(s, id)])
    /\ \A i \in 1..Len(entries) :
         SharesId(i) =>
           IF boosted[i] + PoolAmount(Get(entries[i], "id")) > 0
             THEN /\ Cardinality(PlacesOf(i)) = 1
                  /\ \A k \in PlacesOf(i) :
                       Out[k].score =
                         boosted[i] + PoolAmount(Get(entries[i], "id"))
             ELSE PlacesOf(i) = {}

C21_Witness ==
  /\ Ranked
  /\ \E i \in 1..Len(entries), j \in 1..Len(entries) :
       /\ i < j
       /\ Get(entries[i], "id") = Get(entries[j], "id")
       /\ boosted[i] # boosted[j]
       /\ id_to_score[Get(entries[i], "id")] # boosted[i]
       /\ PoolAmount(Get(entries[i], "id")) > 0
       /\ \E k \in PlacesOf(i), m \in PlacesOf(j) :
            /\ Out[k].score = boosted[i] + PoolAmount(Get(entries[i], "id"))
            /\ Out[m].score = boosted[j] + PoolAmount(Get(entries[i], "id"))
            /\ Out[k].score # Out[m].score

\* ---------------------------------------------------------------------
\* Structural boosts of query terms the tokenizer discards (lines 406-428)

BoostEntryPool == {EntryA, EntryB, EntryC}

\* "a" is a stopword, "c" a single character that is none
BoostTermPool == { <<"c","a","c","h","e">>, <<"a">>, <<"c">> }

BoostQueries ==
  SeqsUpTo(BoostTermPool, MaxTerms)
    \cup { << <<"c","a","c","h","e">>, <<"a">>, <<"a">> >> }

InitBoost ==
  /\ \E e \in SeqsUpTo(BoostEntryPool, MaxEntries), q \in BoostQueries :
       Enter(e, q)
  /\ Fresh
  /\ word = <<>>
  /\ stemmed = <<>>

SpecBoost == InitBoost /\ [][Next]_vars

\* the tokenizer leaves nothing of the raw query term
Discarded(term) == tokenize(term) = <<>>

\* the query without the terms the tokenizer discards
KeptTerms == SelectSeq(query_terms, LAMBDA term : ~Discarded(term))

\* what the discarded terms, each occurrence counted, are worth to entry i:
\* 5.0 as one of its tags and 4.0 as a substring of its id
DiscardedHits(i) ==
  SumSeq([j \in 1..Len(query_terms) |->
            IF Discarded(query_terms[j])
              THEN (IF lower(query_terms[j]) \in entry_tags(entries[i])
                      THEN 5 * Scale ELSE 0)
                   + (IF IsSubstring(lower(query_terms[j]),
                                     lower(Get(entries[i], "id")))
                        THEN 4 * Scale ELSE 0)
              ELSE 0])

\* C22: when a query term survives tokenization, the structural boosts come
\* from every raw query term: against the same query without the terms the
\* tokenizer discards (stopwords, single characters), each occurrence of a
\* discarded term adds 5.0 to the entries that have it as a tag and 4.0 to
\* the entries whose lowercased id contains it, and nothing else changes.
C22_DiscardedTermsBoost ==
  Boosted =>
    /\ KeptTerms # <<>>
    /\ tokenize(join(KeptTerms)) = query_tokens
    /\ \A i \in 1..Len(entries) :
         boosted[i] =
           Boost(entries, KeptTerms, get_scores(bm25, query_tokens))[i]
             + DiscardedHits(i)

\* an entry the query without its discarded terms does not return is
\* returned, and a discarded term counts twice
C22_Witness ==
  /\ Ranked
  /\ \E i \in 1..Len(entries) :
       /\ DiscardedHits(i) = 10 * Scale
       /\ Returned(i)
       /\ \A k \in 1..Len(score_entries_bm25(entries, KeptTerms).value) :
            score_entries_bm25(entries, KeptTerms).value[k].idx # i

====
